---- MODULE Spec2Model ----
(***************************************************************************)
(* The GAIL discriminator of ml-agents (reward_signals/gail/model.py) as a *)
(* state machine: the construction of the TensorFlow graph by __init__     *)
(* (make_beta, make_inputs, create_network, create_loss), and the          *)
(* operations the trainer then runs on it (update_beta, update_batch,      *)
(* and evaluations of expert_action, intrinsic_reward and the gradient     *)
(* penalty's interpolation).                                               *)
(*                                                                         *)
(* Numbers.  beta, the estimates and EPSILON are fixed-point reals in      *)
(* units of 1e-7 (EPSILON = 1, 1.0 = One).  The KL input and the target    *)
(* mutual information are in units of 1e-3, so that the step size          *)
(* alpha = 0.0005 is 5 beta-units per KL-unit.  Arithmetic is exact; the   *)
(* float32 rounding of the program is not modelled.                        *)
(***************************************************************************)
EXTENDS Integers, Sequences, FiniteSets, TLC

\* ------------------------------------------------------------ constants

EPSILON == 1

One == 10000000

alpha == 5

mutual_information == 500

learning_rate == 3000

encoding_size == 64

\* ------------------------------------------------------------ bounds

MaxUpdates == 3

MaxSteps == 2

MaxBranches == 2

MaxCard == 3

MaxBatch == 2

MaxBatchGP == 2

\* ------------------------------------------------------------ helpers

Max(a, b) == IF a >= b THEN a ELSE b

RECURSIVE SumSeq(_)
SumSeq(s) == IF s = <<>> THEN 0 ELSE Head(s) + SumSeq(Tail(s))

RECURSIVE Flatten(_)
Flatten(ss) == IF ss = <<>> THEN <<>> ELSE Head(ss) \o Flatten(Tail(ss))

\* ------------------------------------------------------------ state

VARIABLES
    cfg,              \* the constructor's arguments and the policy model's attributes
    pc,               \* position of __init__, then "ready" (or "failed")
    err,              \* the exception that ended construction, or "none"
    created,          \* variable name -> number of times the variable was created
    trainable,        \* the graph's TRAINABLE_VARIABLES collection
    beta,             \* value of the variable gail_beta
    kl_div_input,     \* the value last fed to the placeholder kl_div_input
    weights,          \* variable name -> number of updates applied by the optimizer
    expert_action,    \* the node self.expert_action
    encoded_expert,   \* the node self.encoded_expert (a list of column blocks)
    encoded_policy,   \* the node self.encoded_policy
    encoders,         \* the calls of create_encoder, in order
    intrinsic_reward, \* the node self.intrinsic_reward
    loss,             \* the terms of self.loss, in order
    update_batch,     \* the variables update_batch assigns
    grad_input,       \* the tensor the gradient penalty differentiates by
    n_updates,        \* runs of update_beta
    n_steps,          \* runs of update_batch
    run               \* the last evaluation of the graph on a fed batch

graph == <<expert_action, encoded_expert, encoded_policy, encoders,
           intrinsic_reward, loss, update_batch, grad_input>>

store == <<created, trainable, err>>

vars == <<cfg, pc, beta, kl_div_input, weights, n_updates, n_steps, run,
          graph, store>>

\* A node not built, an evaluation not made.
NoNode == [op |-> "None"]

\* ------------------------------------------------------------ variable store

VisualEncoderNames ==
    << "gail_stream_0_visual_obs_encoder", "gail_stream_1_visual_obs_encoder" >>

DenseNames ==
    << "GAIL_model/gail_d_hidden_1", "GAIL_model/gail_d_hidden_2",
       "GAIL_model/gail_z_mean", "GAIL_model/gail_d_estimate" >>

VarNames ==
    {"gail_beta", "gail_sigma_vail"}
        \cup {DenseNames[i] : i \in 1..Len(DenseNames)}
        \cup {VisualEncoderNames[i] : i \in 1..Len(VisualEncoderNames)}

Store == [created |-> created, trainable |-> trainable, err |-> err]

\* tf.get_variable / a layer's variables under a variable scope: with reuse the
\* variable must exist already, without reuse it must not.  An exception (err)
\* ends the construction: nothing after it takes effect.
get_variable(st, name, is_trainable, reuse) ==
    IF st.err # "none" THEN st
    ELSE IF reuse
         THEN IF st.created[name] = 0
              THEN [st EXCEPT !.err = "variable_does_not_exist"]
              ELSE st
         ELSE IF st.created[name] > 0
              THEN [st EXCEPT !.err = "variable_already_exists"]
              ELSE [st EXCEPT !.created[name] = @ + 1,
                              !.trainable = IF is_trainable THEN @ \cup {name} ELSE @]

\* ------------------------------------------------------------ tensors

\* A tensor of shape [batch, width] is the list of the column blocks it was
\* concatenated from.
Block(src, idx, stream, width, norm) ==
    [src |-> src, idx |-> idx, stream |-> stream, width |-> width, norm |-> norm]

\* tf.concat(list, axis=1)
Concat(tensors) == Flatten(tensors)

Width(t) == SumSeq([i \in 1..Len(t) |-> t[i].width])

\* The graph variables a tensor is computed from.
TensorReads(t) ==
    {VisualEncoderNames[t[i].idx + 1] : i \in {j \in 1..Len(t) : t[j].src = "visual"}}

\* The policy model's selected_actions: one column per continuous action, the
\* concatenated one-hot branches of a discrete one.
ActionWidth(c) ==
    IF c.vector_action_space_type = "continuous" THEN c.act_size[1]
    ELSE SumSeq(c.act_size)

selected_actions == << Block("action", 0, "policy", ActionWidth(cfg), FALSE) >>

done_expert == << Block("done", 0, "expert", 1, FALSE) >>

done_policy == << Block("done", 0, "policy", 1, FALSE) >>

\* ------------------------------------------------------------ __init__

\* make_beta with the variable left trainable (the default of get_variable).
make_beta_trainable ==
    /\ pc = "make_beta"
    /\ LET st == get_variable(Store, "gail_beta", TRUE, FALSE)
       IN  /\ created' = st.created
           /\ trainable' = st.trainable
           /\ err' = st.err
           /\ pc' = IF st.err = "none" THEN "make_inputs" ELSE "failed"
    /\ beta' = One
    /\ UNCHANGED <<cfg, kl_div_input, weights, n_updates, n_steps, run, graph>>

make_beta ==
    /\ pc = "make_beta"
    /\ LET st == get_variable(Store, "gail_beta", FALSE, FALSE)
       IN  /\ created' = st.created
           /\ trainable' = st.trainable
           /\ err' = st.err
           /\ pc' = IF st.err = "none" THEN "make_inputs" ELSE "failed"
    /\ beta' = One
    /\ UNCHANGED <<cfg, kl_div_input, weights, n_updates, n_steps, run, graph>>

\* Every branch encoded with the depth of the first.
ExpertActionNode_single_depth(c) ==
    IF c.vector_action_space_type = "continuous"
    THEN [op |-> "identity", in_width |-> c.act_size[1], depths |-> <<>>,
          width |-> c.act_size[1]]
    ELSE [op |-> "concat_one_hot", in_width |-> Len(c.act_size),
          depths |-> [i \in 1..Len(c.act_size) |-> c.act_size[1]],
          width |-> Len(c.act_size) * c.act_size[1]]

\* The node self.expert_action.
ExpertActionNode(c) ==
    IF c.vector_action_space_type = "continuous"
    THEN [op |-> "identity", in_width |-> c.act_size[1], depths |-> <<>>,
          width |-> c.act_size[1]]
    ELSE [op |-> "concat_one_hot", in_width |-> Len(c.act_size),
          depths |-> c.act_size, width |-> SumSeq(c.act_size)]

\* The loop over the visual observations: the policy's encoder is created
\* first, the expert's reuses it.
RECURSIVE VisualEncoders(_, _, _)
VisualEncoders(st, i, n) ==
    IF i >= n THEN st
    ELSE LET name == VisualEncoderNames[i + 1]
             s1 == get_variable(st, name, TRUE, FALSE)
             s2 == get_variable(s1, name, TRUE, TRUE)
         IN  VisualEncoders(s2, i + 1, n)

\* visual_policy_encoders / visual_expert_encoders: one encoding per visual
\* observation, appended in the order of the loop.
VisualEncodings(stream, n) ==
    [i \in 1..n |-> << Block("visual", i - 1, stream, encoding_size, FALSE) >>]

\* The lists with the visual encodings put before the vector observation.
EncodedList_visual_first(c, stream) ==
    (IF c.vis_obs_size > 0
     THEN << Concat(VisualEncodings(stream, c.vis_obs_size)) >>
     ELSE <<>>)
    \o (IF c.vec_obs_size > 0
        THEN << << Block("vector", 0, stream, c.vec_obs_size, c.normalize) >> >>
        ELSE <<>>)

\* encoded_expert_list / encoded_policy_list
EncodedList(c, stream) ==
    (IF c.vec_obs_size > 0
     THEN << << Block("vector", 0, stream, c.vec_obs_size, c.normalize) >> >>
     ELSE <<>>)
    \o (IF c.vis_obs_size > 0
        THEN << Concat(VisualEncodings(stream, c.vis_obs_size)) >>
        ELSE <<>>)

make_inputs ==
    /\ pc = "make_inputs"
    /\ expert_action' = ExpertActionNode(cfg)
    /\ LET st == VisualEncoders(Store, 0, cfg.vis_obs_size)
           encoded_expert_list == EncodedList(cfg, "expert")
           encoded_policy_list == EncodedList(cfg, "policy")
           st2 == IF st.err = "none" /\ encoded_expert_list = <<>>
                  THEN [st EXCEPT !.err = "concat_of_empty_list"]
                  ELSE st
       IN  /\ created' = st2.created
           /\ trainable' = st2.trainable
           /\ err' = st2.err
           /\ pc' = IF st2.err = "none" THEN "create_network" ELSE "failed"
           /\ encoded_expert' = IF st2.err = "none" THEN Concat(encoded_expert_list)
                                ELSE encoded_expert
           /\ encoded_policy' = IF st2.err = "none" THEN Concat(encoded_policy_list)
                                ELSE encoded_policy
    /\ UNCHANGED <<cfg, beta, kl_div_input, weights, n_updates, n_steps, run,
                   encoders, intrinsic_reward, loss, update_batch, grad_input>>

\* The layers create_encoder builds, in order.
EncoderLayers(c) ==
    << DenseNames[1], DenseNames[2] >>
    \o (IF c.use_vail THEN << DenseNames[3] >> ELSE <<>>)
    \o << DenseNames[4] >>

RECURSIVE Dense(_, _, _)
Dense(st, names, reuse) ==
    IF names = <<>> THEN st
    ELSE Dense(get_variable(st, Head(names), TRUE, reuse), Tail(names), reuse)

\* create_encoder(state_in, action_in, done_in, reuse): the variable store
\* after the call, and the encoder built (its raw input, the variables its
\* estimate is computed from, and the variables of its latent mean).
create_encoder(st, stream, state_in, action_in, done_in, reuse) ==
    LET concat_input == IF cfg.use_actions
                        THEN Concat(<< state_in, action_in, done_in >>)
                        ELSE state_in
        layers == EncoderLayers(cfg)
    IN  [st |-> Dense(st, layers, reuse),
         enc |-> [stream |-> stream,
                  reuse |-> reuse,
                  concat_input |-> concat_input,
                  layers |-> layers,
                  estimate_input |-> IF cfg.use_vail THEN "z" ELSE "hidden_2",
                  reads |-> {layers[i] : i \in 1..Len(layers)}
                            \cup (IF cfg.use_vail THEN {"gail_sigma_vail"} ELSE {})
                            \cup TensorReads(concat_input),
                  z_mean_reads |-> IF cfg.use_vail
                                   THEN {DenseNames[1], DenseNames[2], DenseNames[3]}
                                        \cup TensorReads(concat_input)
                                   ELSE {}]]

\* The encoders built while no exception was raised.
Built(results) ==
    LET ok == {i \in 1..Len(results) :
                 \A j \in 1..(i - 1) : results[j].st.err = "none"}
    IN  [i \in 1..Cardinality(ok) |-> results[i].enc]

\* The reward read from the expert's estimate.
IntrinsicRewardNode_expert ==
    [op |-> "neg_log_one_minus", input |-> "expert_estimate", epsilon |-> EPSILON]

\* self.intrinsic_reward = -tf.log(1.0 - self.discriminator_score + EPSILON),
\* discriminator_score being the policy's estimate reshaped to [-1].
IntrinsicRewardNode ==
    [op |-> "neg_log_one_minus", input |-> "policy_estimate", epsilon |-> EPSILON]

create_network ==
    /\ pc = "create_network"
    /\ LET st0 == IF cfg.use_vail
                  THEN get_variable(Store, "gail_sigma_vail", TRUE, FALSE)
                  ELSE Store
           e1 == create_encoder(st0, "expert", encoded_expert,
                                << Block("action", 0, "expert", expert_action.width, FALSE) >>,
                                done_expert, FALSE)
           e2 == create_encoder(e1.st, "policy", encoded_policy,
                                selected_actions, done_policy, TRUE)
       IN  /\ created' = e2.st.created
           /\ trainable' = e2.st.trainable
           /\ err' = e2.st.err
           /\ encoders' = IF st0.err = "none" THEN Built(<< e1, e2 >>) ELSE <<>>
           /\ pc' = IF e2.st.err = "none" THEN "create_loss" ELSE "failed"
           /\ intrinsic_reward' =
                  IF e2.st.err = "none"
                  THEN IntrinsicRewardNode
                  ELSE intrinsic_reward
    /\ UNCHANGED <<cfg, beta, kl_div_input, weights, n_updates, n_steps, run,
                   expert_action, encoded_expert, encoded_policy, loss,
                   update_batch, grad_input>>

\* alpha * _expert_in + (1 - alpha) * _policy_in: a tensor of the shape of
\* _expert_in, column by column.
Interp(expert_in, policy_in) ==
    [i \in 1..Len(expert_in) |-> [expert_in[i] EXCEPT !.stream = "interp"]]

\* The gradient penalty's encoder asked for without reuse.
create_gradient_magnitude_no_reuse(st) ==
    LET expert == << encoded_expert,
                     << Block("action", 0, "expert", expert_action.width, FALSE) >>,
                     done_expert >>
        policy == << encoded_policy, selected_actions, done_policy >>
        interp == [k \in 1..3 |-> [i \in 1..Len(expert[k]) |->
                                     [expert[k][i] EXCEPT !.stream = "interp"]]]
        e == create_encoder(st, "interp", interp[1], interp[2], interp[3], FALSE)
    IN  [st |-> e.st, enc |-> e.enc, grad_input |-> e.enc.concat_input]

\* create_gradient_magnitude(): the store after it, the encoder built on the
\* interpolated inputs and the tensor the gradient is taken by.
create_gradient_magnitude(st) ==
    LET expert == << encoded_expert,
                     << Block("action", 0, "expert", expert_action.width, FALSE) >>,
                     done_expert >>
        policy == << encoded_policy, selected_actions, done_policy >>
        interp == [k \in 1..3 |-> Interp(expert[k], policy[k])]
        e == create_encoder(st, "interp", interp[1], interp[2], interp[3], TRUE)
    IN  [st |-> e.st, enc |-> e.enc, grad_input |-> e.enc.concat_input]

\* The test of the weight with >= for >.
GradientPenaltyEnabled_nonnegative(c) == c.gradient_penalty_weight >= 0

\* if self.gradient_penalty_weight > 0.0
GradientPenaltyEnabled(c) == c.gradient_penalty_weight > 0

\* The terms of self.loss, in the order they are added.
LossTerms(c) ==
    (IF c.use_vail
     THEN << [coef |-> "beta", term |-> "kl_loss - mutual_information"] >>
     ELSE <<>>)
    \o << [coef |-> "1", term |-> "discriminator_loss"] >>
    \o (IF GradientPenaltyEnabled(c)
        THEN << [coef |-> "gradient_penalty_weight", term |-> "gradient_magnitude"] >>
        ELSE <<>>)

\* The graph variables a term of the loss is computed from.
TermReads(t, encs) ==
    LET of(stream) == {i \in 1..Len(encs) : encs[i].stream = stream}
    IN  CASE t.term = "discriminator_loss" ->
               UNION {encs[i].reads : i \in of("expert") \cup of("policy")}
          [] t.term = "kl_loss - mutual_information" ->
               {"gail_beta", "gail_sigma_vail"}
                 \cup UNION {encs[i].z_mean_reads : i \in of("expert") \cup of("policy")}
          [] t.term = "gradient_magnitude" ->
               UNION {encs[i].reads : i \in of("interp")}

LossReads(terms, encs) == UNION {TermReads(terms[i], encs) : i \in 1..Len(terms)}

\* minimize over every variable the loss reads, trainable or not.
Minimize_all_variables(terms, encs, trainable_variables) ==
    {v \in VarNames : created[v] > 0} \cap LossReads(terms, encs)

\* optimizer.minimize(self.loss): the trainable variables the loss has a
\* gradient for.
Minimize(terms, encs, trainable_variables) ==
    trainable_variables \cap LossReads(terms, encs)

create_loss ==
    /\ pc = "create_loss"
    /\ LET gp == IF GradientPenaltyEnabled(cfg)
                 THEN create_gradient_magnitude(Store)
                 ELSE [st |-> Store, enc |-> <<>>, grad_input |-> grad_input]
           encs == IF GradientPenaltyEnabled(cfg) /\ gp.st.err = "none"
                   THEN Append(encoders, gp.enc) ELSE encoders
           terms == LossTerms(cfg)
       IN  /\ created' = gp.st.created
           /\ trainable' = gp.st.trainable
           /\ err' = gp.st.err
           /\ encoders' = encs
           /\ pc' = IF gp.st.err = "none" THEN "ready" ELSE "failed"
           /\ IF gp.st.err = "none"
              THEN /\ loss' = terms
                   /\ grad_input' = gp.grad_input
                   /\ update_batch' = Minimize(terms, encs, gp.st.trainable)
              ELSE UNCHANGED <<loss, grad_input, update_batch>>
    /\ UNCHANGED <<cfg, beta, kl_div_input, weights, n_updates, n_steps, run,
                   expert_action, encoded_expert, encoded_policy, intrinsic_reward>>

\* ------------------------------------------------------------ the trainer's calls

\* update_beta computed from the initial value instead of the current one.
update_beta_from_initial(kl) ==
    /\ pc = "ready"
    /\ n_updates < MaxUpdates
    /\ kl_div_input' = kl
    /\ beta' = Max(One + alpha * (kl - mutual_information), EPSILON)
    /\ n_updates' = n_updates + 1
    /\ UNCHANGED <<cfg, pc, weights, n_steps, run, graph, store>>

\* update_beta without the floor.
update_beta_unfloored(kl) ==
    /\ pc = "ready"
    /\ n_updates < MaxUpdates
    /\ kl_div_input' = kl
    /\ beta' = beta + alpha * (kl - mutual_information)
    /\ n_updates' = n_updates + 1
    /\ UNCHANGED <<cfg, pc, weights, n_steps, run, graph, store>>

\* sess.run(update_beta, {kl_div_input: kl})
update_beta(kl) ==
    /\ pc = "ready"
    /\ n_updates < MaxUpdates
    /\ kl_div_input' = kl
    /\ beta' = Max(beta + alpha * (kl - mutual_information), EPSILON)
    /\ n_updates' = n_updates + 1
    /\ UNCHANGED <<cfg, pc, weights, n_steps, run, graph, store>>

\* sess.run(update_batch): one step of the optimizer on the variables it was
\* given; a step moves a scalar by about the learning rate, either way.
run_update_batch ==
    /\ pc = "ready"
    /\ n_steps < MaxSteps
    /\ weights' = [v \in VarNames |->
                     IF v \in update_batch THEN weights[v] + 1 ELSE weights[v]]
    /\ \E d \in {-learning_rate, learning_rate} :
          beta' = IF "gail_beta" \in update_batch THEN beta + d ELSE beta
    /\ n_steps' = n_steps + 1
    /\ UNCHANGED <<cfg, pc, kl_div_input, n_updates, run, graph, store>>

\* ------------------------------------------------------------ evaluations

\* Each evaluates the graph once on a fed batch and keeps the result in run;
\* an evaluation leaves nothing behind that a later one would read, so one per
\* behaviour is followed.

\* tf.one_hot(index, depth): a 1 at the index, zeros elsewhere (all zeros for
\* an index out of range).
one_hot(index, depth) == [k \in 1..depth |-> IF k - 1 = index THEN 1 ELSE 0]

\* The value of self.expert_action for one row fed to action_in_expert.
EvalExpertAction(node, row) ==
    IF node.op = "identity" THEN row
    ELSE Concat([i \in 1..Len(node.depths) |-> one_hot(row[i], node.depths[i])])

\* Values of a continuous action, and of a raw discrete one (int32, in range
\* or not).
ContinuousValues == {-15000000, 0, 2500000}

ActionRows(node) ==
    IF node.op = "identity"
    THEN [1..node.in_width -> ContinuousValues]
    ELSE [1..node.in_width -> (-1)..MaxCard]

\* sess.run(expert_action, {action_in_expert: [row]})
run_expert_action ==
    /\ pc = "ready"
    /\ run = NoNode
    /\ \E row \in ActionRows(expert_action) :
          run' = [op |-> "expert_action",
                  action_in_expert |-> row,
                  expert_action |-> EvalExpertAction(expert_action, row)]
    /\ UNCHANGED <<cfg, pc, beta, kl_div_input, weights, n_updates, n_steps,
                   graph, store>>

RECURSIVE FloorLog2(_)
FloorLog2(x) == IF x < 2 THEN 0 ELSE 1 + FloorLog2(x \div 2)

RECURSIVE Pow2(_)
Pow2(n) == IF n = 0 THEN 1 ELSE 2 * Pow2(n - 1)

\* The first k binary digits of log2(m / 2^14), for 2^14 <= m < 2^15, by
\* repeated squaring.
RECURSIVE Log2Fraction(_, _)
Log2Fraction(m, k) ==
    IF k = 0 THEN 0
    ELSE LET sq == (m * m) \div Pow2(14)
         IN  IF sq >= Pow2(15)
             THEN Pow2(k - 1) + Log2Fraction(sq \div 2, k - 1)
             ELSE Log2Fraction(sq, k - 1)

\* log2(x) in units of 1/256, for an integer x >= 1.
Log2Fixed(x) ==
    LET e == FloorLog2(x)
        m == IF e >= 14 THEN x \div Pow2(e - 14) ELSE x * Pow2(14 - e)
    IN  256 * e + Log2Fraction(m, 8)

\* tf.log of x (in units of 1e-7), in units of 1e-3: -inf at 0, nan below.
Log(x) ==
    IF x > 0
    THEN [kind |-> "finite",
          value |-> ((Log2Fixed(x) - Log2Fixed(One)) * 693) \div 256]
    ELSE IF x = 0 THEN [kind |-> "-inf", value |-> 0]
    ELSE [kind |-> "nan", value |-> 0]

Neg(r) ==
    CASE r.kind = "finite" -> [r EXCEPT !.value = -@]
      [] r.kind = "-inf" -> [r EXCEPT !.kind = "inf"]
      [] r.kind = "inf" -> [r EXCEPT !.kind = "-inf"]
      [] OTHER -> r

\* tf.reshape(estimate, [-1]) of a [batch, 1] tensor.
Reshape(estimate) == Flatten(estimate)

\* The value of self.intrinsic_reward for the fed batch.
EvalIntrinsicReward(node, feeds) ==
    LET score == Reshape(feeds[node.input])
    IN  [i \in 1..Len(score) |-> Neg(Log(One - score[i] + node.epsilon))]

\* Outputs of the sigmoid, in units of 1e-7 (float32 reaches 0 and 1): of the
\* policy's encoder, and of the expert's.
Estimates == {0, 1, 2500000, 5000000, 9999999, 10000000}

ExpertEstimates == {1, 7500000}

\* sess.run(intrinsic_reward, feed): the estimates stand for the outputs of
\* the two encoders on the fed expert and policy batches.
run_intrinsic_reward ==
    /\ pc = "ready"
    /\ run = NoNode
    /\ \E n \in 1..MaxBatch, m \in 1..MaxBatch :
       \E pol \in [1..n -> Estimates], exp \in [1..m -> ExpertEstimates] :
          LET feeds == [expert_estimate |-> [i \in 1..m |-> << exp[i] >>],
                        policy_estimate |-> [i \in 1..n |-> << pol[i] >>]]
          IN  run' = [op |-> "intrinsic_reward",
                      expert_estimate |-> feeds.expert_estimate,
                      policy_estimate |-> feeds.policy_estimate,
                      intrinsic_reward |-> EvalIntrinsicReward(intrinsic_reward, feeds)]
    /\ UNCHANGED <<cfg, pc, beta, kl_div_input, weights, n_updates, n_steps,
                   graph, store>>

\* tf.random_uniform draws from [0, 1); in quarters.
AlphaScale == 4

AlphaValues == {0, 1, 3}

\* tf.random_uniform(tf.shape(_expert_in)): one draw per element of a tensor
\* of that shape.
random_uniform(n, width) == [1..n -> [1..width -> AlphaValues]]

\* alpha * _expert_in + (1 - alpha) * _policy_in, elementwise (times AlphaScale).
InterpValues(a, expert_in, policy_in) ==
    [s \in 1..Len(expert_in) |->
        [f \in 1..Len(expert_in[s]) |->
            a[s][f] * expert_in[s][f] + (AlphaScale - a[s][f]) * policy_in[s][f]]]

\* A [n, width] tensor filled with one value.
Fill(n, width, v) == [s \in 1..n |-> [f \in 1..width |-> v]]

\* The (expert, policy) values of a fed batch.
BatchValues == {<< 4, 0 >>, << 0, 8 >>}

\* The interpolation of create_gradient_magnitude on a fed batch of n samples:
\* the three tensors have the widths of encoded_expert, expert_action and
\* done_expert.
run_gradient_magnitude ==
    /\ pc = "ready"
    /\ run = NoNode
    /\ GradientPenaltyEnabled(cfg)
    /\ \E n \in 1..MaxBatchGP, v \in BatchValues :
          LET widths == << Width(encoded_expert), expert_action.width, Width(done_expert) >>
              expert == [k \in 1..3 |-> Fill(n, widths[k], v[1])]
              policy == [k \in 1..3 |-> Fill(n, widths[k], v[2])]
          IN  \E a1 \in random_uniform(n, widths[1]),
                 a2 \in random_uniform(n, widths[2]),
                 a3 \in random_uniform(n, widths[3]) :
                 LET a == << a1, a2, a3 >>
                 IN  run' = [op |-> "gradient_magnitude",
                             expert |-> expert,
                             policy |-> policy,
                             alpha |-> a,
                             interp |-> [k \in 1..3 |->
                                           InterpValues(a[k], expert[k], policy[k])]]
    /\ UNCHANGED <<cfg, pc, beta, kl_div_input, weights, n_updates, n_steps,
                   graph, store>>

\* ------------------------------------------------------------ specification

\* Action spaces of the policy's brain: type and act_size.
ActionSpaces ==
    {[type |-> "continuous", act_size |-> << 2 >>],
     [type |-> "discrete", act_size |-> << 3, 2 >>]}

\* Observation spaces: (vec_obs_size, vis_obs_size).
ObsSpaces == {<< 2, 0 >>, << 0, 1 >>, << 2, 2 >>, << 0, 0 >>}

GradientPenaltyWeights == {-1, 0, 10}

Config(a, o, n, ua, uv, w) ==
    [vector_action_space_type |-> a.type, act_size |-> a.act_size,
     vec_obs_size |-> o[1], vis_obs_size |-> o[2], normalize |-> n,
     use_actions |-> ua, use_vail |-> uv, gradient_penalty_weight |-> w]

Configs ==
    {Config(a, o, n, ua, uv, w) :
        a \in ActionSpaces, o \in ObsSpaces, n \in BOOLEAN,
        ua \in BOOLEAN, uv \in BOOLEAN, w \in GradientPenaltyWeights}

\* KL values fed to update_beta, in units of 1e-3.
KLValues == {-400000000, -2000000, 0, 1000, 3000}

\* The state at the start of __init__, the fields set and nothing built.
InitWith(configs) ==
    /\ cfg \in configs
    /\ pc = "make_beta"
    /\ err = "none"
    /\ created = [v \in VarNames |-> 0]
    /\ trainable = {}
    /\ beta = 0
    /\ kl_div_input = 0
    /\ weights = [v \in VarNames |-> 0]
    /\ expert_action = NoNode
    /\ encoded_expert = <<>>
    /\ encoded_policy = <<>>
    /\ encoders = <<>>
    /\ intrinsic_reward = NoNode
    /\ loss = <<>>
    /\ update_batch = {}
    /\ grad_input = <<>>
    /\ n_updates = 0
    /\ n_steps = 0
    /\ run = NoNode

Init == InitWith(Configs)

\* GAILModel.__init__
Construct ==
    \/ make_beta
    \/ make_inputs
    \/ create_network
    \/ create_loss

Next ==
    \/ Construct
    \/ \E kl \in KLValues : update_beta(kl)
    \/ run_update_batch

Spec == Init /\ [][Next]_vars

\* Action spaces for the evaluation of expert_action: continuous of 1 to
\* MaxBranches actions, discrete of 1 to MaxBranches branches of 1 to MaxCard
\* choices each.
OneHotActionSpaces ==
    {[type |-> "continuous", act_size |-> << n >>] : n \in 1..MaxBranches}
    \cup {[type |-> "discrete", act_size |-> c] :
            c \in UNION {[1..n -> 1..MaxCard] : n \in 1..MaxBranches}}

OneHotConfigs ==
    {Config(a, << 2, 0 >>, FALSE, ua, FALSE, 0) :
        a \in OneHotActionSpaces, ua \in BOOLEAN}

NextOneHot ==
    \/ Construct
    \/ run_expert_action

SpecOneHot == InitWith(OneHotConfigs) /\ [][NextOneHot]_vars

RewardConfigs ==
    {Config([type |-> "continuous", act_size |-> << 2 >>], << 2, 0 >>, FALSE,
            FALSE, uv, 10) : uv \in BOOLEAN}

NextReward ==
    \/ Construct
    \/ run_intrinsic_reward

SpecReward == InitWith(RewardConfigs) /\ [][NextReward]_vars

InterpConfigs ==
    {Config([type |-> "continuous", act_size |-> << 1 >>], << 2, 0 >>, n,
            ua, FALSE, 10) : n \in BOOLEAN, ua \in BOOLEAN}

NextInterp ==
    \/ Construct
    \/ run_gradient_magnitude

SpecInterp == InitWith(InterpConfigs) /\ [][NextInterp]_vars

\* ------------------------------------------------------------ properties

\* One run of update_beta, of update_batch.
BetaUpdated == n_updates' = n_updates + 1

OptimizerStepped == n_steps' = n_steps + 1

\* C1: beta starts at 1.0, and every run of update_beta with the KL value kl
\* replaces beta by max(beta + 0.0005 * (kl - 0.5), 1e-7), beta being the value
\* the previous run left (in units: max(beta + 5 * kl - 2500, 1)); from
\* beta = 1.0 and kl = 1.0 the new beta is 1.00025.
C1_BetaUpdateRule ==
    /\ [](pc # "make_beta" /\ n_updates = 0 /\ n_steps = 0 => beta = 10000000)
    /\ [][BetaUpdated =>
            LET target == beta + 5 * kl_div_input' - 2500
            IN  beta' = IF target >= 1 THEN target ELSE 1]_vars
    /\ [][BetaUpdated /\ beta = 10000000 /\ kl_div_input' = 1000
            => beta' = 10002500]_vars

\* Two runs with kl = 1.0: the second starts from what the first left.
C1_Witness ==
    n_updates = 2 /\ kl_div_input = 1000 /\ beta = 10005000

\* C2: once created, beta is at least epsilon (so never zero or negative),
\* whatever KL values were fed and however the optimizer's steps interleave;
\* a beta at the floor that gets a kl below the target stays at the floor.
C2_BetaFloor ==
    /\ [](pc # "make_beta" => beta >= 1 /\ beta > 0)
    /\ [][BetaUpdated /\ beta = 1 /\ kl_div_input' < 500 => beta' = 1]_vars

\* At the floor after a second update with kl = 0, below the target, with an
\* optimizer step in between or before.
C2_Witness ==
    n_updates = 2 /\ n_steps >= 1 /\ beta = 1 /\ kl_div_input = 0

\* C3: a step of the optimizer leaves beta as it is, in every configuration:
\* beta is not among the variables update_batch assigns, and only update_beta
\* changes it once it is created.
C3_OptimizerLeavesBeta ==
    /\ [][OptimizerStepped => beta' = beta]_vars
    /\ []("gail_beta" \notin update_batch /\ "gail_beta" \notin trainable)
    /\ [][beta' # beta /\ pc # "make_beta" => BetaUpdated]_vars

\* Steps of the optimizer on a VAIL model with the gradient penalty, whose
\* loss reads beta, after beta has moved.
C3_Witness ==
    /\ n_steps = 2 /\ n_updates >= 1 /\ beta # One
    /\ cfg.use_vail /\ cfg.gradient_penalty_weight > 0
    /\ "gail_beta" \in LossReads(loss, encoders)

HasTerm(coef, term) == \E i \in 1..Len(loss) : loss[i] = [coef |-> coef, term |-> term]

\* C5: the loss always holds the adversarial loss; it holds beta * (KL - I_c)
\* exactly when VAIL is on; it holds weight * gradient penalty exactly when the
\* weight is strictly positive, and no encoder is built for the penalty
\* otherwise; with VAIL off the loss does not read beta.
C5_LossComposition ==
    pc = "ready" =>
        /\ HasTerm("1", "discriminator_loss")
        /\ HasTerm("beta", "kl_loss - mutual_information") <=> cfg.use_vail
        /\ HasTerm("gradient_penalty_weight", "gradient_magnitude")
              <=> cfg.gradient_penalty_weight > 0
        /\ (\E i \in 1..Len(encoders) : encoders[i].stream = "interp")
              <=> cfg.gradient_penalty_weight > 0
        /\ Len(loss) = 1 + (IF cfg.use_vail THEN 1 ELSE 0)
                         + (IF cfg.gradient_penalty_weight > 0 THEN 1 ELSE 0)
        /\ ~cfg.use_vail => "gail_beta" \notin LossReads(loss, encoders)

\* A weight of zero with VAIL off: the adversarial loss alone.
C5_Witness ==
    /\ pc = "ready" /\ cfg.gradient_penalty_weight = 0 /\ ~cfg.use_vail
    /\ loss = << [coef |-> "1", term |-> "discriminator_loss"] >>

\* The variables of the discriminator proper (scope GAIL_model).
EncoderVars == {DenseNames[i] : i \in 1..Len(DenseNames)}

\* C6: construction creates every discriminator variable once, by the expert
\* encoder, which is built first and without reuse; every later encoder (the
\* policy's, and the gradient penalty's when built) is built with reuse, on the
\* same variables; never is a variable asked for with reuse before it exists,
\* or without reuse a second time.
C6_WeightSharing ==
    /\ err \notin {"variable_does_not_exist", "variable_already_exists"}
    /\ \A v \in VarNames : created[v] <= 1
    /\ pc \in {"create_loss", "ready"} =>
          /\ Len(encoders) >= 2
          /\ encoders[1].stream = "expert" /\ ~encoders[1].reuse
          /\ encoders[2].stream = "policy"
          /\ \A i \in 2..Len(encoders) :
                /\ encoders[i].reuse
                /\ encoders[i].layers = encoders[1].layers
          /\ \A i \in 1..Len(encoders[1].layers) : created[encoders[1].layers[i]] = 1
          /\ \A v \in EncoderVars :
                created[v] = 1 =>
                    \E i \in 1..Len(encoders[1].layers) : encoders[1].layers[i] = v
    /\ pc = "ready" =>
          Len(encoders) = IF cfg.gradient_penalty_weight > 0 THEN 3 ELSE 2

\* Three encoders on one set of variables, the latent layer among them.
C6_Witness ==
    /\ pc = "ready" /\ cfg.use_vail /\ Len(encoders) = 3
    /\ encoders[3].stream = "interp" /\ encoders[3].reuse
    /\ created["GAIL_model/gail_z_mean"] = 1

\* The layout of a tensor: what each column block holds.
Layout(t) == [i \in 1..Len(t) |-> << t[i].src, t[i].idx >>]

ExpectedLayout(c) ==
    (IF c.vec_obs_size > 0 THEN << << "vector", 0 >> >> ELSE <<>>)
    \o [i \in 1..c.vis_obs_size |-> << "visual", i - 1 >>]
    \o (IF c.use_actions THEN << << "action", 0 >>, << "done", 0 >> >> ELSE <<>>)

\* C9: the raw input of every encoder (expert, policy, interpolated) has one
\* layout: the vector observation first when there is one, then the visual
\* encodings by increasing index, then the action and the done flag exactly
\* when use_actions is set; the gradient penalty differentiates by that input.
C9_InputLayout ==
    pc = "ready" =>
        /\ \A i \in 1..Len(encoders) :
              /\ Layout(encoders[i].concat_input) = ExpectedLayout(cfg)
              /\ \A k \in 1..Len(encoders[i].concat_input) :
                    encoders[i].concat_input[k].stream = encoders[i].stream
        /\ cfg.gradient_penalty_weight > 0 =>
              /\ grad_input = encoders[3].concat_input
              /\ Layout(grad_input) = ExpectedLayout(cfg)

\* Vector and two visual observations with actions, all three encoders built.
C9_Witness ==
    /\ pc = "ready" /\ cfg.use_actions /\ Len(encoders) = 3
    /\ cfg.vec_obs_size > 0 /\ cfg.vis_obs_size = 2
    /\ Len(grad_input) = 5

\* The variables construction has created, beta apart.
Weights == {v \in VarNames : created[v] > 0 /\ v # "gail_beta"}

\* C10 as stated: the discriminator's variables and beta are created once
\* at construction, in every configuration, and beta and all the weights change
\* on every step of the optimizer.
C10_AsStated ==
    /\ [](pc = "ready" =>
            /\ created["gail_beta"] = 1
            /\ \A i \in 1..Len(encoders[1].layers) : created[encoders[1].layers[i]] = 1)
    /\ [][OptimizerStepped =>
            /\ beta' # beta
            /\ \A v \in Weights : weights'[v] # weights[v]]_vars

\* C10, amended: the discriminator's variables and beta are created once at
\* construction, in every configuration (VAIL off included), and nothing is
\* created afterwards; every step of the optimizer updates every weight and
\* leaves beta as it is; beta changes on update_beta only.
C10_Lifecycle ==
    /\ [](pc = "ready" =>
            /\ created["gail_beta"] = 1
            /\ \A i \in 1..Len(encoders[1].layers) : created[encoders[1].layers[i]] = 1
            /\ \A v \in VarNames : created[v] <= 1)
    /\ [][pc = "ready" => created' = created]_vars
    /\ [][OptimizerStepped =>
            /\ beta' = beta
            /\ \A v \in Weights : weights'[v] = weights[v] + 1]_vars
    /\ [][pc = "ready" /\ beta' # beta => BetaUpdated]_vars

\* VAIL off: beta exists all the same; after two steps of the optimizer and an
\* update of beta, the weights have two updates each.
C10_Witness ==
    /\ pc = "ready" /\ ~cfg.use_vail /\ created["gail_beta"] = 1
    /\ n_steps = 2 /\ n_updates = 1 /\ beta # One
    /\ \A v \in Weights : weights[v] = 2
    /\ Cardinality(Weights) >= 4

\* The columns before branch i in the encoding of a discrete action.
Offset(c, i) == SumSeq(SubSeq(c, 1, i - 1))

\* C4: for a discrete action space of branch sizes c, a raw row a with
\* 0 <= a[i] < c[i] is encoded as the branches' one-hot vectors in branch
\* order: sum(c) columns, and in the segment of branch i a single 1, at
\* offset a[i] ([3,2] and [1,0] give [0,1,0,1,0]); a continuous action passes
\* unchanged.
C4_OneHotEncoding ==
    run.op = "expert_action" =>
        LET row == run.action_in_expert
            out == run.expert_action
            c == cfg.act_size
        IN  /\ cfg.vector_action_space_type = "discrete"
                  /\ (\A i \in 1..Len(c) : 0 <= row[i] /\ row[i] < c[i])
               => /\ Len(out) = SumSeq(c)
                  /\ \A i \in 1..Len(c) : \A k \in 1..c[i] :
                        out[Offset(c, i) + k] = IF k = row[i] + 1 THEN 1 ELSE 0
            /\ cfg.vector_action_space_type = "discrete"
                  /\ c = << 3, 2 >> /\ row = << 1, 0 >>
               => out = << 0, 1, 0, 1, 0 >>
            /\ cfg.vector_action_space_type = "continuous" => out = row

\* The spec's example, evaluated.
C4_Witness ==
    /\ run.op = "expert_action"
    /\ cfg.vector_action_space_type = "discrete" /\ cfg.act_size = << 3, 2 >>
    /\ run.action_in_expert = << 1, 0 >>
    /\ run.expert_action = << 0, 1, 0, 1, 0 >>

\* C7: the intrinsic reward is a flat vector with one entry per sample of the
\* policy batch, entry i being -log(1 - policy_estimate[i] + 1e-7), of the
\* policy's estimate and never the expert's; it does not decrease as the
\* estimate grows (and grows over a quarter of the range), and is finite for
\* estimates in [0, 1 - epsilon].  At 0 it is 0, at 0.5 it is log 2.
C7_IntrinsicReward ==
    run.op = "intrinsic_reward" =>
        LET p == run.policy_estimate
            r == run.intrinsic_reward
        IN  /\ Len(r) = Len(p)
            /\ \A i \in 1..Len(p) :
                  /\ r[i] = Neg(Log(10000000 - p[i][1] + 1))
                  /\ p[i][1] >= 0 /\ p[i][1] <= 10000000 - 1 => r[i].kind = "finite"
                  /\ p[i][1] = 0 => r[i].value = 0
                  /\ p[i][1] = 5000000 => r[i].value \in 690..696
            /\ \A i, j \in 1..Len(p) :
                  /\ p[i][1] <= p[j][1] => r[i].value <= r[j].value
                  /\ p[j][1] - p[i][1] >= 2500000 => r[i].value < r[j].value

\* A policy batch of two and an expert batch of one: two rewards, about 0 and
\* about -log(2e-7).
C7_Witness ==
    /\ run.op = "intrinsic_reward"
    /\ Len(run.expert_estimate) = 1
    /\ run.policy_estimate = << << 0 >>, << 9999999 >> >>
    /\ Len(run.intrinsic_reward) = 2
    /\ run.intrinsic_reward[1].value = 0
    /\ run.intrinsic_reward[2].value > 15000

\* C8: in the gradient penalty each of the three tensors gets interpolation
\* weights in [0, 1] drawn per sample and broadcast over the features, so that
\* all features of a sample in one tensor share one alpha, and
\* interp = alpha * expert + (1 - alpha) * policy.
C8_PerSampleAlpha ==
    run.op = "gradient_magnitude" =>
        \A k \in 1..3 : \A s \in 1..Len(run.alpha[k]) :
            \A f, g \in 1..Len(run.alpha[k][s]) :
                /\ run.alpha[k][s][f] \in 0..AlphaScale
                /\ run.alpha[k][s][f] = run.alpha[k][s][g]
                /\ run.interp[k][s][f] =
                       run.alpha[k][s][f] * run.expert[k][s][f]
                       + (AlphaScale - run.alpha[k][s][f]) * run.policy[k][s][f]

====
